---- MODULE Spec2Model ----
(***************************************************************************)
(* Model of Investment.Auto_Investment_calculator                          *)
(* (auto_investment_calculator.py).                                        *)
(*                                                                         *)
(* Python floats are binary floating-point numbers: every arithmetic       *)
(* operation returns the representable number nearest to the exact result  *)
(* (ties to even).  The model keeps that behaviour with a significand of   *)
(* Prec bits instead of 53 and an unbounded exponent (no overflow and no   *)
(* underflow).  A float is a pair <<m, e>> standing for m * 2^e, with      *)
(* m = 0 /\ e = 0 for zero and 2^(Prec-1) <= |m| < 2^Prec otherwise.       *)
(* float ** int is taken to be correctly rounded.                          *)
(***************************************************************************)
EXTENDS Integers, Sequences, FiniteSets, TLC

Prec == 6          \* bits of the significand of a model float
MaxYears == 6      \* largest horizon drawn for self.years
MaxTimes == 3      \* largest frequency drawn for self.times

---------------------------------------------------------------------------
(* Floating-point arithmetic                                               *)

RECURSIVE Pow2(_)
Pow2(n) == IF n <= 0 THEN 1 ELSE 2 * Pow2(n - 1)

RECURSIVE IntPow(_, _)
IntPow(b, n) == IF n <= 0 THEN 1 ELSE b * IntPow(b, n - 1)

Abs(n) == IF n < 0 THEN -n ELSE n

Min(a, b) == IF a < b THEN a ELSE b

\* nearest integer to num / den (num >= 0, den > 0), ties to even
HalfEven(num, den) ==
    LET q == num \div den
        r == num % den
    IN  IF 2 * r > den \/ (2 * r = den /\ q % 2 = 1) THEN q + 1 ELSE q

\* the float nearest to (num / den) * 2^e, for num >= 0 and den > 0
RECURSIVE RoundPos(_, _, _)
RoundPos(num, den, e) ==
    IF num = 0 THEN <<0, 0>>
    ELSE IF num >= den * Pow2(Prec) THEN RoundPos(num, 2 * den, e + 1)
    ELSE IF num < den * Pow2(Prec - 1) THEN RoundPos(2 * num, den, e - 1)
    ELSE LET m == HalfEven(num, den)
         IN  IF m = Pow2(Prec) THEN <<Pow2(Prec - 1), e + 1>> ELSE <<m, e>>

Neg(a) == <<-a[1], a[2]>>

\* the float nearest to (num / den) * 2^e, for any integer num and den > 0
Round(num, den, e) ==
    IF num < 0 THEN Neg(RoundPos(-num, den, e)) ELSE RoundPos(num, den, e)

\* the float nearest to an integer or to the decimal num / den
FromInt(n) == Round(n, 1, 0)
Dec(num, den) == Round(num, den, 0)

Zero == <<0, 0>>
One == FromInt(1)

\* a + b; an operand more than Prec + 2 binary places below the other is
\* less than a quarter of its last place and is absorbed by the rounding
FAdd(a, b) ==
    IF a[1] = 0 THEN b
    ELSE IF b[1] = 0 THEN a
    ELSE IF a[2] - b[2] > Prec + 2 THEN a
    ELSE IF b[2] - a[2] > Prec + 2 THEN b
    ELSE LET e == Min(a[2], b[2])
         IN  Round(a[1] * Pow2(a[2] - e) + b[1] * Pow2(b[2] - e), 1, e)

\* a - b
FSub(a, b) == FAdd(a, Neg(b))

\* a * b
FMul(a, b) == Round(a[1] * b[1], 1, a[2] + b[2])

\* a * n and a / n for an int n > 0 (an int of the program converts to
\* float exactly, so the one rounding is that of the result)
FMulInt(a, n) == Round(a[1] * n, 1, a[2])
FDivInt(a, n) == Round(a[1], n, a[2])

\* a ** j for an int j >= 1
FPow(a, j) ==
    IF a[1] < 0 /\ j % 2 = 1
    THEN Neg(RoundPos(IntPow(-a[1], j), 1, a[2] * j))
    ELSE RoundPos(IntPow(Abs(a[1]), j), 1, a[2] * j)

\* a < b, a <= b on the exact values
FLt(a, b) ==
    IF a[1] = 0 THEN b[1] > 0
    ELSE IF b[1] = 0 THEN a[1] < 0
    ELSE IF (a[1] < 0) # (b[1] < 0) THEN a[1] < 0
    ELSE LET e == Min(a[2], b[2])
         IN  IF a[2] - e > Prec THEN a[1] < 0
             ELSE IF b[2] - e > Prec THEN b[1] > 0
             ELSE a[1] * Pow2(a[2] - e) < b[1] * Pow2(b[2] - e)

FLe(a, b) == a = b \/ FLt(a, b)

\* round(a, nd) of Python, given as the integer count of units of 10^-nd
RoundN(a, nd) ==
    LET s == IF a[1] < 0 THEN -1 ELSE 1
        n == Abs(a[1]) * IntPow(10, nd)
    IN  IF a[2] >= 0 THEN s * n * Pow2(a[2])
        ELSE IF -a[2] > 29 THEN 0
        ELSE s * HalfEven(n, Pow2(-a[2]))

---------------------------------------------------------------------------
(* Module-level parameters (lines 144-153)                                 *)

module_years == 35
interest_yearly == Dec(12, 100)
module_times == 12
module_price == FromInt(4000)
yearly_amount == FMulInt(module_price, module_times)
save == FALSE

Million == 1000000

---------------------------------------------------------------------------
(* Inputs of a call                                                        *)

Prices == {FromInt(-3), Zero, Dec(1, 10), FromInt(17), FromInt(100), FromInt(4000)}
Rates == {Dec(-3, 2), Dec(-1, 4), Zero, Dec(1, 1024), Dec(1, 512), Dec(12, 100),
          Dec(1, 2)}
YearsRange == 0 .. MaxYears
TimesRange == 0 .. MaxTimes

VARIABLES price, years, times, interest, print_value, graph_bool,
          pc, i, total_assets, total_assets_list, interest_rate_period,
          out, fig, shown, saved, exc, ret

self == <<price, years, times, interest, print_value, graph_bool>>
vars == <<price, years, times, interest, print_value, graph_bool,
          pc, i, total_assets, total_assets_list, interest_rate_period,
          out, fig, shown, saved, exc, ret>>

\* Investment.__init__, and the call about to start
Init ==
    /\ price \in Prices
    /\ years \in YearsRange
    /\ times \in TimesRange
    /\ interest \in Rates
    /\ print_value \in BOOLEAN
    /\ graph_bool \in BOOLEAN
    /\ pc = "start"
    /\ i = 0
    /\ total_assets = Zero
    /\ total_assets_list = <<>>
    /\ interest_rate_period = Zero
    /\ out = <<>>
    /\ fig = <<>>
    /\ shown = FALSE
    /\ saved = FALSE
    /\ exc = "none"
    /\ ret = <<>>

---------------------------------------------------------------------------
(* Auto_Investment_calculator                                              *)

\* InvalidPlan with the horizon test off by one (years < 0)
InvalidPlanNegativeYears(t, y) == t < 1 \/ y < 0

\* line 69
InvalidPlan(t, y) == t < 1 \/ y < 1

\* lines 69-73
Validate ==
    /\ pc = "start"
    /\ IF InvalidPlan(times, years)
       THEN /\ pc' = "raised"
            /\ exc' = "ValueError"
            /\ UNCHANGED <<total_assets, total_assets_list, interest_rate_period>>
       ELSE /\ pc' = "loop"
            /\ total_assets' = Zero
            /\ total_assets_list' = <<>>
            /\ interest_rate_period' = FDivInt(interest, times)
            /\ exc' = exc
    /\ UNCHANGED <<self, i, out, fig, shown, saved, ret>>

\* AnnualStep with the contribution assigned to the total instead of added
AnnualStepOverwrite(total, p, r) == FMul(p, FAdd(One, r))

\* AnnualStep with the growth factor 1 - interest
AnnualStepMinusRate(total, p, r) == FMul(FAdd(total, p), FSub(One, r))

\* AnnualStep without the growth of the year
AnnualStepNoGrowth(total, p, r) == FAdd(total, p)

\* lines 77-80: one year of the times == 1 branch
AnnualStep(total, p, r) == FMul(FAdd(total, p), FAdd(One, r))

\* lines 75, 82-83: the inner loop over j = 1 .. t
RECURSIVE yearly_investment(_, _, _)
yearly_investment(p, irp, j) ==
    IF j <= 0 THEN Zero
    ELSE FAdd(yearly_investment(p, irp, j - 1), FMul(p, FPow(FAdd(One, irp), j)))

\* PeriodicStep with the year's contributions added before the growth
PeriodicStepContributionFirst(total, p, r, irp, t) ==
    FMul(FAdd(total, yearly_investment(p, irp, t)), FAdd(One, r))

\* lines 82-85: one year of the times > 1 branch
PeriodicStep(total, p, r, irp, t) ==
    FAdd(FMul(total, FAdd(One, r)), yearly_investment(p, irp, t))

\* line 86
InMillions(total) == FDivInt(total, Million)

\* lines 71-85: total_assets after k passes of the years loop
RECURSIVE TotalAfter(_, _, _, _)
TotalAfter(p, r, t, k) ==
    IF k <= 0 THEN Zero
    ELSE IF t = 1 THEN AnnualStep(TotalAfter(p, r, t, k - 1), p, r)
    ELSE PeriodicStep(TotalAfter(p, r, t, k - 1), p, r, FDivInt(r, t), t)

\* YearAnnual recording a trajectory entry
YearAnnualRecording ==
    /\ pc = "loop"
    /\ i < years
    /\ times = 1
    /\ total_assets' = AnnualStep(total_assets, price, interest)
    /\ total_assets_list' = Append(total_assets_list, InMillions(total_assets'))
    /\ i' = i + 1
    /\ UNCHANGED <<self, pc, interest_rate_period,
                   out, fig, shown, saved, exc, ret>>

\* lines 74, 76-80
YearAnnual ==
    /\ pc = "loop"
    /\ i < years
    /\ times = 1
    /\ total_assets' = AnnualStep(total_assets, price, interest)
    /\ i' = i + 1
    /\ UNCHANGED <<self, pc, total_assets_list, interest_rate_period,
                   out, fig, shown, saved, exc, ret>>

\* YearPeriodic recording the total before the year is accumulated
YearPeriodicRecordsOld ==
    /\ pc = "loop"
    /\ i < years
    /\ times # 1
    /\ total_assets' = PeriodicStep(total_assets, price, interest,
                                    interest_rate_period, times)
    /\ total_assets_list' = Append(total_assets_list, InMillions(total_assets))
    /\ i' = i + 1
    /\ UNCHANGED <<self, pc, interest_rate_period,
                   out, fig, shown, saved, exc, ret>>

\* lines 74, 81-86
YearPeriodic ==
    /\ pc = "loop"
    /\ i < years
    /\ times # 1
    /\ total_assets' = PeriodicStep(total_assets, price, interest,
                                    interest_rate_period, times)
    /\ total_assets_list' = Append(total_assets_list, InMillions(total_assets'))
    /\ i' = i + 1
    /\ UNCHANGED <<self, pc, interest_rate_period,
                   out, fig, shown, saved, exc, ret>>

\* lines 89-96: the eight lines printed when self.print is set
Details(total) ==
    LET principal == FMulInt(FMulInt(module_price, module_times), module_years)
    IN  << <<"Length of Investment", <<module_years>>>>,
           <<"Average Annual Reture Rate", FMulInt(interest_yearly, 100)>>,
           <<"Investment Frequency", <<module_times>>>>,
           <<"Each Investment", <<RoundN(module_price, 0)>>>>,
           <<"Annual Investment Amount", yearly_amount>>,
           <<"Princial", <<RoundN(FDivInt(principal, Million), 3)>>>>,
           <<"Return", <<RoundN(FDivInt(FSub(total, principal), Million), 2)>>>>,
           <<"Principal and Earnings", <<RoundN(FDivInt(total, Million), 2)>>>> >>

\* lines 88-96
PrintDetails ==
    /\ pc = "loop"
    /\ i = years
    /\ out' = IF print_value THEN out \o Details(total_assets) ELSE out
    /\ pc' = "list"
    /\ UNCHANGED <<self, i, total_assets, total_assets_list,
                   interest_rate_period, fig, shown, saved, exc, ret>>

\* line 98
PrintList ==
    /\ pc = "list"
    /\ out' = Append(out, <<"list", total_assets_list>>)
    /\ pc' = "graph"
    /\ UNCHANGED <<self, i, total_assets, total_assets_list,
                   interest_rate_period, fig, shown, saved, exc, ret>>

\* list[-k] of Python
FromEnd(list, k) == list[Len(list) - k + 1]

\* lines 99-114 when an index of lines 111-114 is out of range
GraphIndexError ==
    /\ pc = "graph"
    /\ graph_bool
    /\ Len(total_assets_list) < 4
    /\ fig' = <<<<"plot", total_assets_list>>>>
              \o (IF Len(total_assets_list) >= 2
                  THEN <<<<"text", <<FromEnd(total_assets_list, 2)>>>>>>
                  ELSE <<>>)
              \o (IF Len(total_assets_list) >= 3
                  THEN <<<<"text", <<FromEnd(total_assets_list, 3)>>>>>>
                  ELSE <<>>)
    /\ pc' = "raised"
    /\ exc' = "IndexError"
    /\ UNCHANGED <<self, i, total_assets, total_assets_list,
                   interest_rate_period, out, shown, saved, ret>>

\* lines 99-123
GraphShow ==
    /\ pc = "graph"
    /\ graph_bool
    /\ Len(total_assets_list) >= 4
    /\ fig' = << <<"plot", total_assets_list>>,
                 <<"text", <<FromEnd(total_assets_list, 2)>>>>,
                 <<"text", <<FromEnd(total_assets_list, 3)>>>>,
                 <<"text", <<FromEnd(total_assets_list, 4)>>>> >>
    /\ saved' = save
    /\ shown' = TRUE
    /\ pc' = "return"
    /\ UNCHANGED <<self, i, total_assets, total_assets_list,
                   interest_rate_period, out, exc, ret>>

\* line 99 when self.graph is not set
NoGraph ==
    /\ pc = "graph"
    /\ ~graph_bool
    /\ pc' = "return"
    /\ UNCHANGED <<self, i, total_assets, total_assets_list,
                   interest_rate_period, out, fig, shown, saved, exc, ret>>

\* line 142
Return ==
    /\ pc = "return"
    /\ ret' = <<total_assets>>
    /\ pc' = "done"
    /\ UNCHANGED <<self, i, total_assets, total_assets_list,
                   interest_rate_period, out, fig, shown, saved, exc>>

Next ==
    \/ Validate
    \/ YearAnnual
    \/ YearPeriodic
    \/ PrintDetails
    \/ PrintList
    \/ GraphIndexError
    \/ GraphShow
    \/ NoGraph
    \/ Return

Spec == Init /\ [][Next]_vars

TypeOK ==
    /\ pc \in {"start", "loop", "list", "graph", "return", "done", "raised"}
    /\ i \in 0 .. MaxYears
    /\ Len(ret) <= 1

---------------------------------------------------------------------------
(* Properties                                                              *)

Finished == pc = "done"
AfterLoop == pc \in {"list", "graph", "return", "done"}

\* C1: a plan with years < 1 or times < 1 fails with ValueError, and it does
\* so before any year is accumulated, before any trajectory entry is
\* recorded and before anything is printed or plotted; nothing is returned.
C1_InvalidPlanRaises ==
    (years < 1 \/ times < 1) =>
        /\ pc \in {"start", "raised"}
        /\ pc = "raised" => exc = "ValueError"
        /\ i = 0
        /\ total_assets = Zero
        /\ total_assets_list = <<>>
        /\ out = <<>>
        /\ fig = <<>>
        /\ ~shown
        /\ ret = <<>>

C1_Witness == pc = "raised" /\ exc = "ValueError" /\ years = 0 /\ times >= 1

\* the reference recurrence of C2: one year, and n years from total = 0
RECURSIVE RefPeriodic(_, _, _, _)
RefPeriodic(c, r, f, j) ==
    IF j <= 0 THEN Zero
    ELSE FAdd(RefPeriodic(c, r, f, j - 1),
              FMul(c, FPow(FAdd(One, FDivInt(r, f)), j)))

RECURSIVE RefTotal(_, _, _, _)
RefTotal(c, r, f, n) ==
    IF n <= 0 THEN Zero
    ELSE LET total == RefTotal(c, r, f, n - 1)
         IN  IF f = 1 THEN FMul(FAdd(total, c), FAdd(One, r))
             ELSE FAdd(FMul(total, FAdd(One, r)), RefPeriodic(c, r, f, f))

\* C2: the value returned for a valid plan is the result of the reference
\* recurrence started at 0 and applied once per year for years years.
C2_ReturnsRecurrence ==
    Finished => ret = <<RefTotal(price, interest, times, years)>>

C2_Witness ==
    /\ Finished
    /\ times >= 2
    /\ years >= 3
    /\ price # Zero
    /\ ret = <<RefTotal(price, interest, times, years)>>

\* C3: after k completed years the trajectory has k entries when times > 1
\* and none when times = 1; at the end of the loop k = years.
C3_TrajectoryLength ==
    /\ Len(total_assets_list) = IF times > 1 THEN i ELSE 0
    /\ AfterLoop => i = years

C3_Witness ==
    /\ Finished
    /\ times > 1
    /\ years >= 2
    /\ Len(total_assets_list) = years

\* n * a is a float: the product needs no rounding
ExactMultiple(a, n) ==
    LET q == FMulInt(a, n)
        e == Min(q[2], a[2])
    IN  q[1] * Pow2(q[2] - e) = a[1] * n * Pow2(a[2] - e)

\* C4 as claimed: with interest = 0 and times = 1 the returned value is
\* price * years exactly, for every price and every years >= 1.
C4_ZeroRateExact ==
    (Finished /\ times = 1 /\ interest = Zero) =>
        ret = <<FMulInt(price, years)>>

\* C4 as amended: with interest = 0 and times = 1 the returned value is
\* price * years exactly whenever every multiple k * price, k = 1 .. years,
\* is a float.
C4_ZeroRateExactMultiples ==
    (/\ Finished
     /\ times = 1
     /\ interest = Zero
     /\ \A k \in 1 .. years : ExactMultiple(price, k)) =>
        ret = <<FMulInt(price, years)>>

C4_Witness ==
    /\ Finished
    /\ times = 1
    /\ interest = Zero
    /\ years >= 3
    /\ price # Zero
    /\ \A k \in 1 .. years : ExactMultiple(price, k)
    /\ ret = <<FMulInt(price, years)>>

\* C5 as claimed: the returned value is strictly increasing in price (for
\* interest >= 0) and strictly increasing in interest (for price > 0 and
\* interest > -1).
C5_StrictlyMonotone ==
    Finished =>
        /\ \A c2 \in Prices :
               (FLe(Zero, interest) /\ FLt(price, c2)) =>
                   FLt(ret[1], TotalAfter(c2, interest, times, years))
        /\ \A r2 \in Rates :
               (FLt(Zero, price) /\ FLt(Neg(One), interest) /\ FLt(interest, r2)) =>
                   FLt(ret[1], TotalAfter(price, r2, times, years))

\* C5 as amended: the returned value is non-decreasing in price (for
\* interest >= 0) and non-decreasing in interest (for price > 0 and
\* interest > -1).
C5_Monotone ==
    Finished =>
        /\ \A c2 \in Prices :
               (FLe(Zero, interest) /\ FLt(price, c2)) =>
                   FLe(ret[1], TotalAfter(c2, interest, times, years))
        /\ \A r2 \in Rates :
               (FLt(Zero, price) /\ FLt(Neg(One), interest) /\ FLt(interest, r2)) =>
                   FLe(ret[1], TotalAfter(price, r2, times, years))

C5_Witness ==
    /\ Finished
    /\ times >= 2
    /\ years >= 2
    /\ FLt(Zero, price)
    /\ FLt(interest, Zero)
    /\ \E r2 \in Rates : FLt(ret[1], TotalAfter(price, r2, times, years))
    /\ \E c2 \in Prices : FLt(ret[1], TotalAfter(c2, interest, times, years))

\* C6: a call emits no output: nothing is printed and nothing is plotted.
C6_NoOutput == out = <<>> /\ fig = <<>> /\ ~shown

\* C7: a plan with years >= 1 and times >= 1 never raises, whatever the
\* other parameters and options are.
C7_ValidPlanAccepted == ~InvalidPlan(times, years) => pc # "raised"

\* the principal and the return of the plan of this call, as lines 94-95
\* format them
PlanPrincipal == FMulInt(FMulInt(price, times), years)
ReportedPrincipal == <<"Princial", <<RoundN(InMillions(PlanPrincipal), 3)>>>>
ReportedReturn ==
    <<"Return", <<RoundN(InMillions(FSub(total_assets, PlanPrincipal)), 2)>>>>

\* C8: when details are reported, the principal is that of the plan
\* (price * times * years) and the return is the total minus that principal.
C8_ReportOfThePlan ==
    (AfterLoop /\ print_value) =>
        /\ out[6] = ReportedPrincipal
        /\ out[7] = ReportedReturn

\* the times > 1 formula evaluated with frequency 1, after k years
RECURSIVE PeriodicAtOne(_, _, _)
PeriodicAtOne(p, r, k) ==
    IF k <= 0 THEN Zero
    ELSE PeriodicStep(PeriodicAtOne(p, r, k - 1), p, r, FDivInt(r, 1), 1)

\* C9 as claimed: at times = 1 the total equals, after every year, the
\* total the times > 1 formula gives at frequency 1; no trajectory entry is
\* recorded.
C9_BranchesAgree ==
    (times = 1 /\ pc # "start") =>
        /\ total_assets = PeriodicAtOne(price, interest, i)
        /\ total_assets_list = <<>>

\* C9 as amended: at times = 1 the total equals the total the times > 1
\* formula gives at frequency 1 after the first year, and after every year
\* when interest = 0; no trajectory entry is recorded.
C9_BranchesAgreeFirstYear ==
    (times = 1 /\ pc # "start") =>
        /\ (i <= 1 \/ interest = Zero) =>
               total_assets = PeriodicAtOne(price, interest, i)
        /\ total_assets_list = <<>>

C9_Witness ==
    /\ times = 1
    /\ pc = "loop"
    /\ i = 1
    /\ price # Zero
    /\ interest # Zero
    /\ total_assets # Zero
    /\ total_assets = PeriodicAtOne(price, interest, i)

\* C10 as claimed: with times > 1 the k-th trajectory entry is the total
\* after year k divided by 1,000,000, for every recorded k at every moment,
\* and the returned value is 1,000,000 times the last entry.
C10_TrajectoryConsistent ==
    times > 1 =>
        /\ \A k \in 1 .. Len(total_assets_list) :
               total_assets_list[k] =
                   InMillions(TotalAfter(price, interest, times, k))
        /\ Finished =>
               ret = <<FMulInt(total_assets_list[years], Million)>>

\* C10 as amended: with times > 1 the k-th trajectory entry is the total
\* after year k divided by 1,000,000, for every recorded k at every moment,
\* and the last entry is the returned value divided by 1,000,000.
C10_TrajectoryOfTotals ==
    times > 1 =>
        /\ \A k \in 1 .. Len(total_assets_list) :
               total_assets_list[k] =
                   InMillions(TotalAfter(price, interest, times, k))
        /\ Len(total_assets_list) = i
        /\ i >= 1 => total_assets_list[i] = InMillions(total_assets)
        /\ Finished => <<total_assets_list[years]>> = <<InMillions(ret[1])>>

C10_Witness ==
    /\ Finished
    /\ times > 1
    /\ years >= 3
    /\ price # Zero
    /\ total_assets_list[years] = InMillions(ret[1])
    /\ total_assets_list[1] # total_assets_list[years]

====
